---- MODULE Spec2Model ----
(***************************************************************************)
(* A model of transform_csv_with_ids (src/csv-formater.py): the reshaping  *)
(* of a wide table (one metadata column and N tag columns) into one row    *)
(* per (metadata, tag) pair, with tag names resolved through a mapping.    *)
(*                                                                         *)
(* The input text is held as the sequence of records csv.reader yields     *)
(* for it (a record is a sequence of cells, a cell is a str), and          *)
(* whether the text goes on after them with something csv.reader rejects   *)
(* with csv.Error.  The position of the underlying file object is counted  *)
(* in records.  A Python str is held as the sequence of its code points,   *)
(* so that every character str.strip() knows can occur in it.              *)
(***************************************************************************)
EXTENDS Naturals, Sequences, FiniteSets, TLC

VARIABLES
    lines,              \* records of input_csv_content, as csv.reader yields them
    malformed,          \* after these records the reader raises csv.Error
    mapping,            \* tag_name_to_id_mapping
    pos,                \* records of input_file already consumed by the reader
    tag_name_headers,   \* header[1:]
    missing_keys,
    output_rows,
    row,                \* loop variable of "for row in reader"
    metadata_value,
    tag_values,
    i,                  \* loop variable of "for i, tag_name in enumerate(...)"
    stderr,             \* what was printed to sys.stderr
    result,             \* what the function returned (or raised)
    pc                  \* position in the function body

vars == <<lines, malformed, mapping, pos, tag_name_headers, missing_keys, output_rows,
          row, metadata_value, tag_values, i, stderr, result, pc>>

-----------------------------------------------------------------------------
(* str literals: Text("env") is the str 'env', as code points.             *)

\* the printable ASCII characters U+0020 to U+005F, in code-point order
AsciiLow == " !\"#$%&'()*+,-./0123456789:;<=>?@ABCDEFGHIJKLMNOPQRSTUVWXYZ[\\]^_"

\* the printable ASCII characters U+0061 to U+007E, in code-point order
AsciiHigh == "abcdefghijklmnopqrstuvwxyz{|}~"

IndexIn(c, chars) == CHOOSE k \in 1..Len(chars) : SubSeq(chars, k, k) = c

\* ord(c) of a printable ASCII character other than U+0060
Ord(c) == IF \E k \in 1..Len(AsciiLow) : SubSeq(AsciiLow, k, k) = c
          THEN 31 + IndexIn(c, AsciiLow)
          ELSE 96 + IndexIn(c, AsciiHigh)

RECURSIVE Text(_)
Text(s) == IF s = "" THEN <<>> ELSE <<Ord(Head(s))>> \o Text(Tail(s))

-----------------------------------------------------------------------------
(* Bounds of the explored inputs.                                          *)

MaxTags == 2

MaxDataRows == 2

MaxRowLen == MaxTags + 1

MetadataHeader == Text("project_number")

TagNames == {Text(" "), Text("env"), Text("team")}

\* '', ' \xa0', 'p1', '\x0bdev\u2003'
Cells == {<<>>, <<32, 160>>, Text("p1"), <<11>> \o Text("dev") \o <<8195>>}

IdOf(name) == CASE name = Text("env") -> Text("E1")
                [] name = Text("team") -> Text("E2")
                [] OTHER -> Text("E0")

SeqsUpTo(S, n) == UNION {[1..k -> S] : k \in 0..n}

HeaderRows == {<<>>} \cup {<<MetadataHeader>> \o t : t \in SeqsUpTo(TagNames, MaxTags)}

DataRows == SeqsUpTo(Cells, MaxRowLen)

Mappings == {[k \in K |-> IdOf(k)] : K \in SUBSET TagNames}

InputTables ==
    {<<>>} \cup {<<h>> \o d : h \in HeaderRows, d \in SeqsUpTo(DataRows, MaxDataRows)}

-----------------------------------------------------------------------------
(* Python primitives used by the function.                                 *)

\* the code points str.strip() removes (those with str.isspace()):
\* U+0009-U+000D, U+001C-U+001F, U+0020, U+0085, U+00A0, U+1680,
\* U+2000-U+200A, U+2028, U+2029, U+202F, U+205F, U+3000
Whitespace ==
    (9..13) \cup (28..32) \cup {133, 160, 5760} \cup (8192..8202)
        \cup {8232, 8233, 8239, 8287, 12288}

RECURSIVE LStrip(_)
LStrip(s) == IF s = <<>> THEN <<>>
             ELSE IF Head(s) \in Whitespace THEN LStrip(Tail(s)) ELSE s

RECURSIVE RStrip(_)
RStrip(s) == IF s = <<>> THEN <<>>
             ELSE IF s[Len(s)] \in Whitespace
                  THEN RStrip(SubSeq(s, 1, Len(s) - 1))
                  ELSE s

\* str.strip()
Strip(s) == RStrip(LStrip(s))

\* truth value of a str
Truthy(s) == s # <<>>

\* seq[1:]
Slice1(s) == SubSeq(s, 2, Len(s))

\* sep.join(parts)
RECURSIVE Join(_, _)
Join(sep, parts) ==
    IF parts = <<>> THEN <<>>
    ELSE IF Len(parts) = 1 THEN parts[1]
    ELSE parts[1] \o sep \o Join(sep, Tail(parts))

\* ReaderExhausted, one record early: a header with no data row counts as no input
ReaderExhaustedEarly(p, ls) == p + 1 >= Len(ls)

\* the reader has no further record
ReaderExhausted(p, ls) == p >= Len(ls)

-----------------------------------------------------------------------------
(* csv.writer, excel dialect: minimal quoting, "\r\n" line terminator.     *)

\* ',', '"', '\r', '\n'
SpecialChars == {44, 34, 13, 10}

RECURSIVE NeedsQuote(_)
NeedsQuote(s) == IF s = <<>> THEN FALSE
                 ELSE Head(s) \in SpecialChars \/ NeedsQuote(Tail(s))

RECURSIVE DoubleQuotes(_)
DoubleQuotes(s) == IF s = <<>> THEN <<>>
                   ELSE (IF Head(s) = 34 THEN <<34, 34>> ELSE <<Head(s)>>)
                        \o DoubleQuotes(Tail(s))

WriteField(s) == IF NeedsQuote(s) THEN <<34>> \o DoubleQuotes(s) \o <<34>> ELSE s

RECURSIVE WriteFields(_)
WriteFields(r) == IF r = <<>> THEN <<>>
                  ELSE <<WriteField(Head(r))>> \o WriteFields(Tail(r))

\* a record of one empty field is written as '""'
WriteRow(r) ==
    (IF r = << <<>> >> THEN <<34, 34>> ELSE Join(<<44>>, WriteFields(r))) \o <<13, 10>>

RECURSIVE WriteRows(_)
WriteRows(rs) == IF rs = <<>> THEN <<>> ELSE WriteRow(Head(rs)) \o WriteRows(Tail(rs))

-----------------------------------------------------------------------------
(* Return values.                                                          *)

Pending == [kind |-> "pending"]

ReturnNone == [kind |-> "None"]

ReturnStr(text) == [kind |-> "str", value |-> text]

Raise(exc) == [kind |-> "raise", value |-> exc]

EmptyMessage == Text("Error: CSV file is empty or has no headers.")

MissingPrefix == Text("Error: Missing ID mapping for the following Tag Names: ")

CommaSpace == Text(", ")

MissingMessage(keys) == MissingPrefix \o Join(CommaSpace, keys)

OutputHeader ==
    <<Text("tagkey_id_number"), Text("tagkey_name"), Text("tagvalue_short_name"),
      Text("project_number")>>

-----------------------------------------------------------------------------
Init ==
    /\ lines \in InputTables
    /\ malformed \in BOOLEAN
    /\ mapping \in Mappings
    /\ pos = 0
    /\ tag_name_headers = <<>>
    /\ missing_keys = <<>>
    /\ output_rows = <<>>
    /\ row = <<>>
    /\ metadata_value = <<>>
    /\ tag_values = <<>>
    /\ i = 0
    /\ stderr = <<>>
    /\ result = Pending
    /\ pc = "start"

\* lines 21-28
ReadHeader ==
    /\ pc = "start"
    /\ IF ReaderExhausted(pos, lines) /\ malformed
       THEN /\ result' = Raise("Error")
            /\ pc' = "done"
            /\ UNCHANGED <<pos, tag_name_headers, stderr>>
       ELSE IF ReaderExhausted(pos, lines)
       THEN /\ stderr' = EmptyMessage
            /\ result' = ReturnNone
            /\ pc' = "done"
            /\ UNCHANGED <<pos, tag_name_headers>>
       ELSE /\ tag_name_headers' = Slice1(lines[pos + 1])
            /\ pos' = pos + 1
            /\ pc' = "validate"
            /\ UNCHANGED <<stderr, result>>
    /\ UNCHANGED <<lines, malformed, mapping, missing_keys, output_rows, row,
                   metadata_value, tag_values, i>>

\* MissingKeys without the strip(): a blank header counts as missing
MissingKeysNoStrip(headers, m) ==
    SelectSeq(headers, LAMBDA header : Truthy(header) /\ header \notin DOMAIN m)

\* line 31
MissingKeys(headers, m) ==
    SelectSeq(headers, LAMBDA header : Truthy(Strip(header)) /\ header \notin DOMAIN m)

\* lines 30-38
ValidateHeaders ==
    /\ pc = "validate"
    /\ missing_keys' = MissingKeys(tag_name_headers, mapping)
    /\ IF missing_keys' # <<>>
       THEN /\ stderr' = MissingMessage(missing_keys')
            /\ result' = ReturnNone
            /\ pc' = "done"
            /\ UNCHANGED output_rows
       ELSE /\ output_rows' = <<OutputHeader>>
            /\ pc' = "rewind"
            /\ UNCHANGED <<stderr, result>>
    /\ UNCHANGED <<lines, malformed, mapping, pos, tag_name_headers, row,
                   metadata_value, tag_values, i>>

\* line 41: input_file.seek(0)
Rewind ==
    /\ pc = "rewind"
    /\ pos' = 0
    /\ pc' = "skip"
    /\ UNCHANGED <<lines, malformed, mapping, tag_name_headers, missing_keys, output_rows,
                   row, metadata_value, tag_values, i, stderr, result>>

\* SkipHeader without the next(reader): the loop starts at the header record
SkipHeaderOmitted ==
    /\ pc = "skip"
    /\ pc' = "loop"
    /\ UNCHANGED <<lines, malformed, mapping, pos, tag_name_headers, missing_keys, output_rows,
                   row, metadata_value, tag_values, i, stderr, result>>

\* line 42: next(reader)
SkipHeader ==
    /\ pc = "skip"
    /\ IF ReaderExhausted(pos, lines)
       THEN /\ result' = Raise(IF malformed THEN "Error" ELSE "StopIteration")
            /\ pc' = "done"
            /\ UNCHANGED pos
       ELSE /\ pos' = pos + 1
            /\ pc' = "loop"
            /\ UNCHANGED result
    /\ UNCHANGED <<lines, malformed, mapping, tag_name_headers, missing_keys, output_rows,
                   row, metadata_value, tag_values, i, stderr>>

\* line 45
SkipRow(r) == r = <<>> \/ ~(\E k \in 1..Len(r) : Truthy(Strip(r[k])))

\* BlankMetadata without the strip()
BlankMetadataNoStrip(mv) == ~Truthy(mv)

\* line 51
BlankMetadata(mv) == ~Truthy(Strip(mv))

\* lines 44-54: one iteration of "for row in reader", up to the inner loop
ForRow ==
    /\ pc = "loop"
    /\ IF ReaderExhausted(pos, lines)
       THEN /\ IF malformed
               THEN result' = Raise("Error") /\ pc' = "done"
               ELSE pc' = "write" /\ UNCHANGED result
            /\ UNCHANGED <<pos, row, metadata_value, tag_values, i>>
       ELSE /\ row' = lines[pos + 1]
            /\ pos' = pos + 1
            /\ UNCHANGED result
            /\ IF SkipRow(row') \/ Len(row') < 1
               THEN /\ pc' = "loop"
                    /\ UNCHANGED <<metadata_value, tag_values, i>>
               ELSE /\ metadata_value' = row'[1]
                    /\ IF BlankMetadata(metadata_value')
                       THEN /\ pc' = "loop"
                            /\ UNCHANGED <<tag_values, i>>
                       ELSE /\ tag_values' = Slice1(row')
                            /\ i' = 0
                            /\ pc' = "cells"
    /\ UNCHANGED <<lines, malformed, mapping, tag_name_headers, missing_keys,
                   output_rows, stderr>>

\* InRange without the length test
InRangeAlways(idx, tv) == TRUE

\* line 57
InRange(idx, tv) == idx < Len(tv)

\* ShouldEmit without the strip() of the value
ShouldEmitNoStrip(tag_value, tag_name, m) == Truthy(tag_value) /\ tag_name \in DOMAIN m

\* line 59
ShouldEmit(tag_value, tag_name, m) == Truthy(Strip(tag_value)) /\ tag_name \in DOMAIN m

\* EmitRow with the value and the metadata trimmed
EmitRowStripped(tag_id, tag_name, tag_value, mv) ==
    <<tag_id, tag_name, Strip(tag_value), Strip(mv)>>

\* line 62: the emitted row
EmitRow(tag_id, tag_name, tag_value, mv) == <<tag_id, tag_name, tag_value, mv>>

\* AppendRow inserting right after the header instead of appending
InsertAfterHeader(out, r) == <<Head(out), r>> \o Tail(out)

\* line 62: output_rows.append
AppendRow(out, r) == Append(out, r)

\* lines 56-62: one iteration of "for i, tag_name in enumerate(tag_name_headers)"
ForTag ==
    /\ pc = "cells"
    /\ IF i >= Len(tag_name_headers)
       THEN /\ pc' = "loop"
            /\ UNCHANGED <<i, output_rows, result>>
       ELSE IF ~InRange(i, tag_values)
       THEN /\ i' = i + 1
            /\ UNCHANGED <<pc, output_rows, result>>
       ELSE IF i + 1 > Len(tag_values)
       THEN /\ result' = Raise("IndexError")
            /\ pc' = "done"
            /\ UNCHANGED <<i, output_rows>>
       ELSE /\ i' = i + 1
            /\ output_rows' =
                 IF ShouldEmit(tag_values[i + 1], tag_name_headers[i + 1], mapping)
                 THEN AppendRow(output_rows,
                                EmitRow(mapping[tag_name_headers[i + 1]],
                                        tag_name_headers[i + 1],
                                        tag_values[i + 1], metadata_value))
                 ELSE output_rows
            /\ UNCHANGED <<pc, result>>
    /\ UNCHANGED <<lines, malformed, mapping, pos, tag_name_headers, missing_keys, row,
                   metadata_value, tag_values, stderr>>

\* lines 64-68
WriteOutput ==
    /\ pc = "write"
    /\ result' = ReturnStr(WriteRows(output_rows))
    /\ pc' = "done"
    /\ UNCHANGED <<lines, malformed, mapping, pos, tag_name_headers, missing_keys, output_rows,
                   row, metadata_value, tag_values, i, stderr>>

Next ==
    \/ ReadHeader
    \/ ValidateHeaders
    \/ Rewind
    \/ SkipHeader
    \/ ForRow
    \/ ForTag
    \/ WriteOutput

Spec == Init /\ [][Next]_vars

-----------------------------------------------------------------------------
TypeOK ==
    /\ pc \in {"start", "validate", "rewind", "skip", "loop", "cells", "write", "done"}
    /\ pos \in 0..Len(lines)
    /\ i \in 0..MaxTags

-----------------------------------------------------------------------------
(* Vocabulary of the properties, stated on the input table.                *)

\* blank after trimming: nothing but whitespace
Blank(s) == \A k \in 1..Len(s) : s[k] \in Whitespace

\* number of tag headers of the input (header cells at position >= 1)
NumTags == IF lines = <<>> \/ lines[1] = <<>> THEN 0 ELSE Len(lines[1]) - 1

\* the tag header at tag position k (1-based)
TagAt(k) == lines[1][k + 1]

Succeeded == pc = "done" /\ result.kind = "str"

\* the unmapped non-blank tag headers, in header order, from header cell k on
RECURSIVE UnmappedFrom(_)
UnmappedFrom(k) ==
    IF k > Len(lines[1]) THEN <<>>
    ELSE (IF ~Blank(lines[1][k]) /\ lines[1][k] \notin DOMAIN mapping
          THEN <<lines[1][k]>> ELSE <<>>) \o UnmappedFrom(k + 1)

\* (data row r, tag position k) has a cell, and metadata and cell are non-blank
NonBlankPair(r, k) ==
    /\ k + 1 <= Len(lines[r])
    /\ ~Blank(lines[r][1])
    /\ ~Blank(lines[r][k + 1])

AllPairs == {<<r, k>> : r \in 2..Len(lines), k \in 1..NumTags}

\* the pairs of the row-count law as claimed
ClaimedPairs == {p \in AllPairs : NonBlankPair(p[1], p[2])}

\* the pairs whose tag header is also a key of the mapping
MappedPairs == {p \in ClaimedPairs : TagAt(p[2]) \in DOMAIN mapping}

\* the output row a pair stands for
RowOf(p) == <<mapping[TagAt(p[2])], TagAt(p[2]), lines[p[1]][p[2] + 1], lines[p[1]][1]>>

LexLess(p, q) == p[1] < q[1] \/ (p[1] = q[1] /\ p[2] < q[2])

Rank(p, S) == Cardinality({q \in S : LexLess(q, p)}) + 1
-----------------------------------------------------------------------------
(* C1: strict-mode gate.  On an input with a header row: if some non-blank *)
(* tag header is not a key of the mapping, no output table is ever built   *)
(* (not even its header row), the function returns None and the failure    *)
(* it reports names exactly the unmapped non-blank headers, in header      *)
(* order; if there is no such header, no failure is reported.              *)
C1_StrictGate ==
    lines # <<>> =>
        LET u == UnmappedFrom(2) IN
        IF u # <<>>
        THEN /\ output_rows = <<>>
             /\ result.kind \in {"pending", "None"}
             /\ pc = "done" => /\ result = ReturnNone
                               /\ missing_keys = u
                               /\ stderr = MissingMessage(u)
        ELSE /\ stderr = <<>>
             /\ result.kind # "None"
             /\ (pc = "done" /\ ~malformed) => result.kind = "str"

\* a failed run whose header holds an unmapped blank tag header (not named)
\* next to an unmapped non-blank one (named)
C1_Witness ==
    /\ pc = "done"
    /\ result = ReturnNone
    /\ missing_keys # <<>>
    /\ Len(missing_keys) < Len(tag_name_headers)
    /\ \E k \in 1..Len(tag_name_headers) :
          Blank(tag_name_headers[k]) /\ tag_name_headers[k] \notin DOMAIN mapping

\* the header row as the specification names it
SpecHeaderRow == <<Text("tagkey_id"), Text("tagkey_name"), Text("tagvalue"), Text("metadata")>>

(* C2: row 0 of a successful output is the header (tagkey_id,              *)
(* tagkey_name, tagvalue, metadata) and every later row has 4 cells.       *)
(* Line 38 writes other names, so every successful run violates it.        *)
C2_SpecHeader ==
    Succeeded =>
        /\ output_rows # <<>>
        /\ output_rows[1] = SpecHeaderRow
        /\ \A n \in 2..Len(output_rows) : Len(output_rows[n]) = 4

(* C6: EmptyInput.  The run fails with the empty-input message iff the     *)
(* input text parses to zero records; then no output table is built and    *)
(* None is returned.  Any input with a header record (even one with no     *)
(* cells, or with no data rows after it) never fails that way, and neither *)
(* does a text the reader rejects.                                         *)
C6_EmptyInput ==
    /\ pc = "done" => (stderr = EmptyMessage <=> (lines = <<>> /\ ~malformed))
    /\ pc # "done" => stderr # EmptyMessage
    /\ lines = <<>> => output_rows = <<>>
    /\ (lines = <<>> /\ ~malformed) => /\ result.kind \in {"pending", "None"}
                                       /\ pc = "done" => result = ReturnNone

\* the run on the empty input has failed
C6_Witness == pc = "done" /\ lines = <<>> /\ stderr = EmptyMessage /\ result = ReturnNone

(* C3 as stated: row-count law.  After a successful run the number of rows *)
(* after the header equals the number of (data row, tag position) pairs    *)
(* that have a cell, a non-blank metadata value and a non-blank cell.      *)
C3_RowCountAsClaimed ==
    Succeeded => Len(output_rows) = 1 + Cardinality(ClaimedPairs)

(* C3, amended: the rows after the header are as many as the pairs that    *)
(* have a cell, a non-blank metadata value, a non-blank cell and a tag     *)
(* header that is a key of the mapping (a blank tag header is not          *)
(* validated, and its cells are dropped unless the mapping has it).        *)
C3_RowCount ==
    Succeeded => Len(output_rows) = 1 + Cardinality(MappedPairs)

\* a successful run with a blank unmapped tag header over a non-blank cell,
\* which emitted rows for the other column
C3_Witness ==
    /\ Succeeded
    /\ Len(output_rows) >= 3
    /\ \E p \in ClaimedPairs : Blank(TagAt(p[2])) /\ TagAt(p[2]) \notin DOMAIN mapping

(* C4: column fidelity.  In every state, every output row after the header *)
(* is (mapping[name], name, value, meta) where name is the tag header at   *)
(* some position k, value is verbatim the cell of some data row r under    *)
(* that header, and meta is verbatim the first cell of the same row r.     *)
C4_ColumnFidelity ==
    \A n \in 2..Len(output_rows) :
        \E r \in 2..Len(lines), k \in 1..NumTags :
            /\ k + 1 <= Len(lines[r])
            /\ TagAt(k) \in DOMAIN mapping
            /\ output_rows[n] = <<mapping[TagAt(k)], TagAt(k), lines[r][k + 1], lines[r][1]>>

\* an emitted row whose value and metadata carry surrounding whitespace
C4_Witness ==
    \E n \in 2..Len(output_rows) :
        /\ output_rows[n][3] # Strip(output_rows[n][3])
        /\ output_rows[n][4] # Strip(output_rows[n][4])

\* the rows of the pairs in S, in lexicographic order of (row, tag position)
InLexOrder(out, S) ==
    /\ Len(out) = 1 + Cardinality(S)
    /\ \A p \in S : out[1 + Rank(p, S)] = RowOf(p)

(* C5: lenient mode.  On every input the reader accepts and that has a     *)
(* header row, the run succeeds                                            *)
(* and emits a row for exactly the non-blank cells (of rows with non-blank *)
(* metadata) whose tag header is a key of the mapping; unmapped headers    *)
(* never make it fail.  The function takes no mode argument, so this is    *)
(* stated of every call.                                                   *)
C5_Lenient ==
    (pc = "done" /\ lines # <<>> /\ ~malformed) =>
        /\ result.kind = "str"
        /\ InLexOrder(output_rows, MappedPairs)

\* every cell of the record is blank (an empty record included)
AllBlank(r) == \A c \in 1..Len(r) : Blank(r[c])

(* C7: blank handling, step by step.  (a), (b): when the loop fetches a    *)
(* data row that is empty, all blank, or has a blank metadata cell, the    *)
(* output is left as it is and the loop goes on to the next row.  (c):     *)
(* when the inner loop meets a blank tag cell, the output is left as it    *)
(* is and the inner loop goes on with the next column of the same row,     *)
(* while a non-blank cell under a mapped header is appended.               *)
C7_BlankHandling ==
    [][ /\ (/\ pc = "loop"
            /\ pos < Len(lines)
            /\ (AllBlank(lines[pos + 1]) \/ Blank(lines[pos + 1][1])))
           => (output_rows' = output_rows /\ pc' = "loop" /\ pos' = pos + 1)
        /\ (/\ pc = "loop"
            /\ pos < Len(lines)
            /\ ~AllBlank(lines[pos + 1])
            /\ ~Blank(lines[pos + 1][1]))
           => (pc' = "cells" /\ i' = 0 /\ pos' = pos + 1 /\ output_rows' = output_rows)
        /\ (/\ pc = "cells"
            /\ i < NumTags
            /\ i + 2 <= Len(lines[pos]))
           => /\ pc' = "cells" /\ i' = i + 1 /\ pos' = pos
              /\ output_rows' =
                   IF ~Blank(lines[pos][i + 2]) /\ TagAt(i + 1) \in DOMAIN mapping
                   THEN Append(output_rows, RowOf(<<pos, i + 1>>))
                   ELSE output_rows
      ]_vars

\* a finished run over a row with blank metadata and a non-blank tag cell,
\* followed by a row with a blank tag cell and a non-blank sibling: only
\* the sibling was emitted
C7_Witness ==
    /\ Succeeded
    /\ Len(lines) = 3
    /\ Len(lines[1]) = 3 /\ TagAt(1) \in DOMAIN mapping /\ TagAt(2) \in DOMAIN mapping
    /\ Len(lines[2]) = 3 /\ Blank(lines[2][1]) /\ ~Blank(lines[2][2])
    /\ Len(lines[3]) = 3 /\ ~Blank(lines[3][1]) /\ Blank(lines[3][2]) /\ ~Blank(lines[3][3])
    /\ output_rows = <<OutputHeader, RowOf(<<3, 2>>)>>

\* the pairs lexicographically before (data row r, tag position k)
PairsBefore(r, k) == {p \in MappedPairs : LexLess(p, <<r, k>>)}

(* C8: output ordering.  At every point of the expansion the rows after    *)
(* the header are the rows of the pairs already passed, in lexicographic   *)
(* order of (data row, tag column); and a step only ever appends to the    *)
(* output table, never reorders or removes.                                *)
C8_Ordering ==
    /\ [](/\ pc = "loop" => InLexOrder(output_rows, PairsBefore(pos + 1, 1))
          /\ pc = "cells" => InLexOrder(output_rows, PairsBefore(pos, i + 1))
          /\ (pc = "write" \/ Succeeded) => InLexOrder(output_rows, MappedPairs))
    /\ [][output_rows # <<>> =>
            /\ Len(output_rows') >= Len(output_rows)
            /\ SubSeq(output_rows', 1, Len(output_rows)) = output_rows]_vars

\* a finished run over two data rows that each emitted both tag columns
C8_Witness ==
    /\ Succeeded
    /\ Len(lines) = 3
    /\ Len(output_rows) = 5
    /\ output_rows[2][2] # output_rows[3][2]

\* the rows one data row contributes, from tag position k on, looking only at
\* positions that exist in the header and in the row
RECURSIVE AlignedFrom(_, _)
AlignedFrom(r, k) ==
    IF k > NumTags \/ k + 1 > Len(lines[r]) THEN <<>>
    ELSE (IF ~Blank(lines[r][k + 1]) /\ TagAt(k) \in DOMAIN mapping
          THEN <<RowOf(<<r, k>>)>> ELSE <<>>) \o AlignedFrom(r, k + 1)

RECURSIVE ContributionsFrom(_)
ContributionsFrom(r) ==
    IF r > Len(lines) THEN <<>>
    ELSE (IF lines[r] = <<>> \/ Blank(lines[r][1]) THEN <<>> ELSE AlignedFrom(r, 1))
         \o ContributionsFrom(r + 1)

(* C9: ragged rows.  A data row longer or shorter than the header never    *)
(* causes an error: the only exception a run can end with is the reader's  *)
(* csv.Error on a text it rejects.  A run over a text the reader accepts   *)
(* and whose header passes validation succeeds, and each data row          *)
(* contributes exactly the rows of its cells at the positions that exist   *)
(* both in the header and in the row.                                      *)
C9_RaggedRows ==
    /\ result.kind = "raise" => (malformed /\ result = Raise("Error"))
    /\ (pc = "done" /\ lines # <<>> /\ ~malformed /\ UnmappedFrom(2) = <<>>) => Succeeded
    /\ Succeeded => output_rows = <<OutputHeader>> \o ContributionsFrom(2)

\* a finished run over a row longer than the header, whose aligned cell was
\* emitted and whose extra cell (non-blank) was not, and a shorter row
C9_Witness ==
    /\ Succeeded
    /\ Len(lines) = 3
    /\ Len(lines[1]) = 2
    /\ Len(lines[2]) = 3 /\ ~Blank(lines[2][3])
    /\ Len(lines[3]) = 1 /\ ~Blank(lines[3][1])
    /\ Len(output_rows) = 2

(* C10: the rewind step.  The skip of the header starts from the rewound   *)
(* position; the expansion loop never fetches the header row; each fetch   *)
(* takes the record right after the previous one; and the loop ends only   *)
(* when every record has been fetched (or the reader rejects the text      *)
(* after them).  So data rows 1..N are each visited once, in order, and a  *)
(* header-only input has no row visited.                                   *)
C10_Rewind ==
    /\ [](/\ pc = "skip" => pos = 0
          /\ pc = "loop" => pos >= 1
          /\ pc = "cells" => (pos >= 2 /\ row = lines[pos])
          /\ pc = "write" => pos = Len(lines)
          /\ result.kind = "raise" => (malformed /\ result = Raise("Error") /\ pos = Len(lines)))
    /\ [][(pc = "loop" /\ pos < Len(lines))
            => (pos' = pos + 1 /\ row' = lines[pos + 1])]_vars
    /\ [][(pc = "skip") => (pc' = "loop" /\ pos' = 1 /\ output_rows' = <<OutputHeader>>)]_vars

\* the loop has ended over two data rows under a header whose cells are
\* non-blank and mapped, and nothing was emitted for the header row
C10_Witness ==
    /\ pc = "write"
    /\ Len(lines) = 3
    /\ Len(lines[1]) = 3 /\ TagAt(1) \in DOMAIN mapping /\ TagAt(2) \in DOMAIN mapping
    /\ ~Blank(lines[1][1]) /\ ~Blank(TagAt(1)) /\ ~Blank(TagAt(2))
    /\ Len(output_rows) = 5
    /\ \A n \in 2..5 : output_rows[n][4] # lines[1][1]
====
